---- MODULE Spec2Model ----
(***************************************************************************)
(* A model of ipa/ipa_utils.py: the cached, retrying SSH client            *)
(* acquisition (CLIENT_CACHE, clear_cache, establish_ssh_connection,       *)
(* execute_ssh_command, get_ssh_client) and the test search                *)
(* (find_test_files, get_tests_from_description); and of ipa/ipa_ec2.py:   *)
(* EC2Provider._stop_instance and _wait_on_instance.                       *)
(*                                                                         *)
(* Strings are sequences of lexemes: 'test_x::k' is <<"test_", "x", "::",  *)
(* "k">>.  A paramiko SSHClient object is a position in the sequence       *)
(* `clients`; 0 is Python's None.                                          *)
(***************************************************************************)
EXTENDS Integers, Sequences, FiniteSets, TLC

VARIABLES
    CLIENT_CACHE,   \* the module-level dict: a function host -> client
    clients,        \* the SSHClient objects that connected: [host, open,
                    \* alive] and, as history, how their canary command went
    thread,         \* per caller: position in the code, arguments, locals
    evicted,        \* history: per host, the clients clear_cache removed
    test_dirs,      \* find_test_files argument: the roots, in order
    tree,           \* the file system: root -> what os.walk(root) yields
    yaml,           \* the file system: description path -> parsed document
    names_arg,      \* find_test_files argument `names`: a list, or "None"
    fpc,            \* position in find_test_files
    tests,          \* its local dict `tests`
    descriptions,   \* its local dict `descriptions`
    names,          \* its local set `names`
    description_names,  \* the part of `description_names` not yet iterated
    stack,          \* the frames of get_tests_from_description
    parsed,         \* the list `parsed` the frames share
    loaded,         \* history: the get_yaml_config calls of this expansion
    expansion,      \* history: the last top-level call and what it returned
    outcome,        \* what find_test_files returned or raised
    instance,       \* the EC2 instance as the provider has it
    ec2             \* the caller of EC2Provider: position, locals, history

connVars == <<CLIENT_CACHE, clients, thread, evicted>>

testVars == <<test_dirs, tree, yaml, names_arg, fpc, tests, descriptions,
              names, description_names, stack, parsed, loaded, expansion,
              outcome>>

ec2Vars == <<instance, ec2>>

vars == <<CLIENT_CACHE, clients, thread, evicted, test_dirs, tree, yaml,
          names_arg, fpc, tests, descriptions, names, description_names,
          stack, parsed, loaded, expansion, outcome, instance, ec2>>

-----------------------------------------------------------------------------
(* Bounds of the model *)

\* SSHClient objects that may connect in one behaviour.
MaxClients == 2
\* The largest value of the `attempts` arguments.
MaxAttempts == 3
\* How far below zero a retry counter is followed (`while attempts:` does
\* not stop on a negative counter).
MaxOverrun == 1

(* Program constants *)

\* establish_ssh_connection(..., attempts=5, ...)
ESTABLISH_ATTEMPTS == 5
\* time.sleep(10)
RETRY_DELAY == 10
\* get_ssh_client(..., attempts=3, ...)
CLIENT_ATTEMPTS == 3
\* get_ssh_client(..., timeout=10)
CLIENT_TIMEOUT == 10

Hosts == {"10.0.0.1", "10.0.0.2"}
Threads == {1}
AttemptsArgs == (-1)..MaxAttempts
\* The `attempts` a caller gives establish_ssh_connection: a value of its
\* own or the default.
EstablishArgs == AttemptsArgs \cup {ESTABLISH_ATTEMPTS}
TimeoutArgs == {1, CLIENT_TIMEOUT}
\* establish_ssh_connection(..., timeout=None) called on its own: None is 0.
EstablishTimeouts == {0}
Commands == {"uname"}
\* What the remote side can answer on a channel: stdout and stderr contents.
StdOuts == {<<>>, <<"o", "k">>}
StdErrs == {<<>>, <<"e", "r">>}

NoClient == 0
NoRet == [kind |-> "none", val |-> 0]
NoResp == [raises |-> FALSE, out |-> <<>>, err |-> <<>>]

-----------------------------------------------------------------------------
(* execute_ssh_command *)

\* The remote answer to one exec_command: `raises` when the transport
\* refuses the command, else the two streams.
Responses ==
    {r \in [raises : BOOLEAN, out : StdOuts, err : StdErrs] :
        r.raises => r.out = <<>> /\ r.err = <<>>}

execute_ssh_command_nocheck(cmd, resp) ==
    IF resp.raises
    THEN [kind |-> "exc", val |-> <<"SSHException">>,
          io |-> <<<<"exec_command", cmd>>>>]
    ELSE [kind |-> "out", val |-> resp.out,
          io |-> <<<<"exec_command", cmd>>, <<"stderr.read">>,
                   <<"stdout.read">>>>]

\* execute_ssh_command(client, cmd) against a remote that answers `resp`:
\* the value returned or the exception raised, and the calls made on the
\* channel in order.
execute_ssh_command(cmd, resp) ==
    IF resp.raises
    THEN [kind |-> "exc", val |-> <<"SSHException">>,
          io |-> <<<<"exec_command", cmd>>>>]
    ELSE IF resp.err # <<>>
    THEN [kind |-> "exc", val |-> resp.err,
          io |-> <<<<"exec_command", cmd>>, <<"stderr.read">>>>]
    ELSE [kind |-> "out", val |-> resp.out,
          io |-> <<<<"exec_command", cmd>>, <<"stderr.read">>,
                   <<"stdout.read">>>>]

\* The answers a client can get: a dead session refuses every command.
ResponsesOf(c) ==
    IF clients[c].alive /\ clients[c].open
    THEN Responses
    ELSE {r \in Responses : r.raises}

-----------------------------------------------------------------------------
(* The caller's frame *)

IdleFrame ==
    [pc |-> "idle", op |-> "none", ip |-> "", attempts |-> 0, timeout |-> 0,
     est_attempts |-> 0, est_timeout |-> 0, client |-> NoClient,
     ret |-> NoRet, cmd |-> "", resp |-> NoResp, io |-> <<>>, hit |-> FALSE,
     argAttempts |-> 0, argTimeout |-> 0,
     nEstablish |-> 0, nConnect |-> 0, nConnected |-> 0, nCanary |-> 0,
     slept |-> 0, opened |-> {}, cache0 |-> <<>>]

\* The frame of a call that has just been entered.
Enter(op, ip, attempts, timeout) ==
    [IdleFrame EXCEPT !.op = op, !.ip = ip, !.attempts = attempts,
                      !.timeout = timeout, !.argAttempts = attempts,
                      !.argTimeout = timeout]

Cached(ip) == ip \in DOMAIN CLIENT_CACHE

\* d[k] = v on a Python dict.
DictSet(d, k, v) == [x \in DOMAIN d \cup {k} |-> IF x = k THEN v ELSE d[x]]
dict_del_all(d, k) == [x \in {} |-> 0]

\* del d[k], ignoring a missing key.
DictDel(d, k) == [x \in DOMAIN d \ {k} |-> d[x]]
EmptyDict == [x \in {} |-> 0]

\* A retry loop `while attempts:` goes round again.
LoopsOn(attempts) == attempts # 0 /\ attempts > 0 - MaxOverrun - 1

-----------------------------------------------------------------------------
(* clear_cache *)

clear_cache_keep(ip) ==
    /\ CLIENT_CACHE' = CLIENT_CACHE
    /\ evicted' = [h \in Hosts |->
                     IF (ip = h \/ ip \in {"None", ""}) /\ Cached(h)
                     THEN evicted[h] \cup {CLIENT_CACHE[h]} ELSE evicted[h]]

\* clear_cache(ip): `ip` is a host, or None or '' (both falsy).
clear_cache(ip) ==
    IF ip \notin {"None", ""}
    THEN /\ CLIENT_CACHE' = DictDel(CLIENT_CACHE, ip)
         /\ evicted' = [evicted EXCEPT ![ip] =
                          IF Cached(ip) THEN @ \cup {CLIENT_CACHE[ip]} ELSE @]
    ELSE /\ CLIENT_CACHE' = EmptyDict
         /\ evicted' = [h \in Hosts |->
                          IF Cached(h) THEN evicted[h] \cup {CLIENT_CACHE[h]}
                          ELSE evicted[h]]

ClearCache(t, ip) ==
    /\ thread[t].pc = "idle"
    /\ clear_cache(ip)
    /\ thread' = [thread EXCEPT ![t] =
                    [Enter("clear_cache", ip, 0, 0) EXCEPT
                        !.ret = [kind |-> "ok", val |-> 0]]]
    /\ UNCHANGED <<clients, testVars, ec2Vars>>

-----------------------------------------------------------------------------
(* get_ssh_client and establish_ssh_connection *)

\* `if ip in CLIENT_CACHE: return CLIENT_CACHE[ip]`
cache_lookup_never(ip) == NoClient

cache_lookup(ip) == IF Cached(ip) THEN CLIENT_CACHE[ip] ELSE NoClient

\* get_ssh_client is entered: a cached client is returned at once.
GetSshClient(t, ip, attempts, timeout) ==
    /\ thread[t].pc = "idle"
    /\ LET c == cache_lookup(ip)
           f == [Enter("get_ssh_client", ip, attempts, timeout) EXCEPT
                    !.cache0 = CLIENT_CACHE]
       IN  thread' = [thread EXCEPT ![t] =
              IF c # NoClient
              THEN [f EXCEPT !.ret = [kind |-> "client", val |-> c],
                             !.hit = TRUE]
              ELSE [f EXCEPT !.pc = "gsc_loop"]]
    /\ UNCHANGED <<CLIENT_CACHE, clients, evicted, testVars, ec2Vars>>

\* The attempts establish_ssh_connection is given by get_ssh_client, which
\* passes no `attempts` argument.
establish_attempts_passed(attempts) == attempts

establish_attempts(attempts) == ESTABLISH_ATTEMPTS

\* The argument of the IpaSSHException get_ssh_client raises after its
\* loop, for the host and the attempts it was called with.
exhaustion_message(ip, attempts) ==
    <<"Attempt to establish SSH connection failed.">>

\* `while attempts:` of get_ssh_client: the next establish_ssh_connection
\* call, or the final raise.
GetSshClientLoop(t) ==
    /\ thread[t].pc = "gsc_loop"
    /\ thread[t].attempts # 0 => LoopsOn(thread[t].attempts)
    /\ LET f == thread[t]
       IN  thread' = [thread EXCEPT ![t] =
              IF f.attempts # 0
              THEN [f EXCEPT !.pc = "esc_loop",
                             !.est_attempts = establish_attempts(f.attempts),
                             !.est_timeout = f.timeout,
                             !.nEstablish = @ + 1]
              ELSE [f EXCEPT !.pc = "idle",
                             !.ret = [kind |-> "exc",
                                      val |-> exhaustion_message(f.ip,
                                                                 f.argAttempts)]]]
    /\ UNCHANGED <<CLIENT_CACHE, clients, evicted, testVars, ec2Vars>>

timeout_backoff_same(timeout) == timeout

\* `timeout += timeout`
timeout_backoff(timeout) == timeout + timeout

\* The except branch of get_ssh_client: close the client the local variable
\* holds, count the attempt, double the timeout.
GscExcept(f) ==
    [f EXCEPT !.pc = "gsc_loop", !.attempts = @ - 1,
              !.timeout = timeout_backoff(f.timeout)]

close_nothing(cs, c) == cs

\* `if client: client.close()`
CloseClient(cs, c) ==
    IF c = NoClient THEN cs ELSE [cs EXCEPT ![c].open = FALSE]

\* establish_ssh_connection was entered by the caller itself.
EstablishSshConnection(t, ip, attempts, timeout) ==
    /\ thread[t].pc = "idle"
    /\ thread' = [thread EXCEPT ![t] =
          [Enter("establish_ssh_connection", ip, attempts, timeout) EXCEPT
              !.pc = "esc_loop", !.est_attempts = attempts,
              !.est_timeout = timeout, !.nEstablish = 1]]
    /\ UNCHANGED <<CLIENT_CACHE, clients, evicted, testVars, ec2Vars>>

attempts_after_failure_same(attempts) == attempts

\* `attempts -= 1` in the except branch of establish_ssh_connection.
attempts_after_failure(attempts) == attempts - 1

\* One round of `while attempts:` in establish_ssh_connection in which
\* client.connect raises: the attempt is counted and the caller sleeps.
ConnectFails(t) ==
    /\ thread[t].pc = "esc_loop"
    /\ LoopsOn(thread[t].est_attempts)
    /\ thread' = [thread EXCEPT ![t] =
          [thread[t] EXCEPT !.est_attempts =
                                attempts_after_failure(thread[t].est_attempts),
                            !.nConnect = @ + 1,
                            !.slept = @ + RETRY_DELAY]]
    /\ UNCHANGED <<CLIENT_CACHE, clients, evicted, testVars, ec2Vars>>

\* One round in which client.connect succeeds: the client is returned, to
\* get_ssh_client (which goes on to the canary) or to the caller.
ConnectSucceeds(t) ==
    /\ thread[t].pc = "esc_loop"
    /\ LoopsOn(thread[t].est_attempts)
    /\ Len(clients) < MaxClients
    /\ LET c == Len(clients) + 1
       IN  /\ clients' = Append(clients,
                  [host |-> thread[t].ip, open |-> TRUE, alive |-> TRUE,
                   canary |-> "none"])
           /\ thread' = [thread EXCEPT ![t] =
                 IF thread[t].op = "get_ssh_client"
                 THEN [thread[t] EXCEPT !.pc = "gsc_canary", !.client = c,
                                        !.opened = @ \cup {c},
                                        !.nConnect = @ + 1,
                                        !.nConnected = @ + 1]
                 ELSE [thread[t] EXCEPT !.pc = "idle",
                                        !.ret = [kind |-> "client", val |-> c],
                                        !.opened = @ \cup {c},
                                        !.nConnect = @ + 1,
                                        !.nConnected = @ + 1]]
    /\ UNCHANGED <<CLIENT_CACHE, evicted, testVars, ec2Vars>>

\* `while attempts:` of establish_ssh_connection ends: IpaSSHException, which
\* get_ssh_client catches.
EstablishRaises(t) ==
    /\ thread[t].pc = "esc_loop"
    /\ thread[t].est_attempts = 0
    /\ IF thread[t].op = "get_ssh_client"
       THEN /\ clients' = CloseClient(clients, thread[t].client)
            /\ thread' = [thread EXCEPT ![t] = GscExcept(thread[t])]
       ELSE /\ clients' = clients
            /\ thread' = [thread EXCEPT ![t] =
                  [thread[t] EXCEPT !.pc = "idle",
                            !.ret = [kind |-> "exc",
                                     val |-> <<"Failed to establish SSH connection to instance.">>]]]
    /\ UNCHANGED <<CLIENT_CACHE, evicted, testVars, ec2Vars>>

\* execute_ssh_command(client, 'ls') in get_ssh_client: on an exception the
\* except branch, else the client is cached and returned.
Canary(t, resp) ==
    /\ thread[t].pc = "gsc_canary"
    /\ resp \in ResponsesOf(thread[t].client)
    /\ LET r == execute_ssh_command("ls", resp)
           c == thread[t].client
       IN  IF r.kind = "exc"
           THEN /\ clients' = CloseClient(
                               [clients EXCEPT ![c].canary = "failed"], c)
                /\ thread' = [thread EXCEPT ![t] =
                      [GscExcept(thread[t]) EXCEPT !.nCanary = @ + 1,
                                                   !.cmd = "ls",
                                                   !.resp = resp,
                                                   !.io = r.io]]
                /\ CLIENT_CACHE' = CLIENT_CACHE
           ELSE /\ clients' = [clients EXCEPT ![c].canary = "passed"]
                /\ CLIENT_CACHE' = DictSet(CLIENT_CACHE, thread[t].ip, c)
                /\ thread' = [thread EXCEPT ![t] =
                      [thread[t] EXCEPT !.pc = "idle", !.nCanary = @ + 1,
                                !.cmd = "ls", !.resp = resp,
                                !.io = r.io,
                                !.ret = [kind |-> "client", val |-> c]]]
    /\ UNCHANGED <<evicted, testVars, ec2Vars>>

\* The caller runs a command on a client it was given.
ExecuteSshCommand(t, c, cmd, resp) ==
    /\ thread[t].pc = "idle"
    /\ c \in 1..Len(clients)
    /\ resp \in ResponsesOf(c)
    /\ LET r == execute_ssh_command(cmd, resp)
       IN  thread' = [thread EXCEPT ![t] =
              [Enter("execute_ssh_command", clients[c].host, 0, 0) EXCEPT
                  !.client = c, !.cmd = cmd, !.resp = resp, !.io = r.io,
                  !.ret = [kind |-> r.kind, val |-> r.val]]]
    /\ UNCHANGED <<CLIENT_CACHE, clients, evicted, testVars, ec2Vars>>

\* The remote end of a cached session goes away (the instance stops or
\* reboots between two uses of the client).
SessionLost(c) ==
    /\ c \in 1..Len(clients)
    /\ \E h \in DOMAIN CLIENT_CACHE : CLIENT_CACHE[h] = c
    /\ clients[c].alive
    /\ clients' = [clients EXCEPT ![c].alive = FALSE]
    /\ UNCHANGED <<CLIENT_CACHE, thread, evicted, testVars, ec2Vars>>

-----------------------------------------------------------------------------

\* The module is imported: the cache is empty and nothing runs.
ConnInit ==
    /\ CLIENT_CACHE = EmptyDict
    /\ clients = <<>>
    /\ thread = [t \in Threads |-> IdleFrame]
    /\ evicted = [h \in Hosts |-> {}]

\* find_test_files is not called.
TestsIdle ==
    /\ test_dirs = <<>>
    /\ tree = EmptyDict
    /\ yaml = EmptyDict
    /\ names_arg = [none |-> TRUE, val |-> <<>>, list |-> FALSE]
    /\ fpc = "idle"
    /\ tests = EmptyDict
    /\ descriptions = EmptyDict
    /\ names = {}
    /\ description_names = {}
    /\ stack = <<>>
    /\ parsed = <<>>
    /\ loaded = <<>>
    /\ expansion = [name |-> <<>>, tests |-> <<>>]
    /\ outcome = NoRet

\* No EC2Provider method is called.
Ec2Idle ==
    /\ instance = [state |-> "running", request |-> "none",
                   created |-> "none"]
    /\ ec2 = [pc |-> "idle", op |-> "none", state |-> "",
              current_state |-> "", ret |-> "none", msg |-> "",
              polls |-> 0, polled |-> {}, calls |-> <<>>]

Init == ConnInit /\ TestsIdle /\ Ec2Idle

Next ==
    \/ \E t \in Threads, ip \in Hosts, a \in AttemptsArgs, to \in TimeoutArgs :
          GetSshClient(t, ip, a, to)
    \/ \E t \in Threads : GetSshClientLoop(t)
    \/ \E t \in Threads, ip \in Hosts, a \in EstablishArgs,
          to \in EstablishTimeouts :
          EstablishSshConnection(t, ip, a, to)
    \/ \E t \in Threads : ConnectFails(t)
    \/ \E t \in Threads : ConnectSucceeds(t)
    \/ \E t \in Threads : EstablishRaises(t)
    \/ \E t \in Threads, resp \in Responses : Canary(t, resp)
    \/ \E t \in Threads, c \in 1..MaxClients, cmd \in Commands,
          resp \in Responses : ExecuteSshCommand(t, c, cmd, resp)
    \/ \E t \in Threads, ip \in Hosts \cup {"None", ""} : ClearCache(t, ip)
    \/ \E c \in 1..MaxClients : SessionLost(c)

Spec == Init /\ [][Next]_vars

-----------------------------------------------------------------------------
(* Strings *)

\* The first position of lexeme `sep` in `s`, or 0.
Find(s, sep) ==
    IF \E i \in 1..Len(s) : s[i] = sep
    THEN CHOOSE i \in 1..Len(s) : s[i] = sep /\ \A j \in 1..(i - 1) : s[j] # sep
    ELSE 0

\* s.split(sep, maxsplit): the list of parts; maxsplit = -1 is no limit.
RECURSIVE Split(_, _, _)
Split(s, sep, maxsplit) ==
    LET i == Find(s, sep)
    IN  IF i = 0 \/ maxsplit = 0
        THEN <<s>>
        ELSE <<SubSeq(s, 1, i - 1)>>
                \o Split(SubSeq(s, i + 1, Len(s)), sep, maxsplit - 1)

\* fnmatch.filter(files, 'test_*.<ext>')
FnMatch(file, ext) ==
    /\ Len(file) >= 3
    /\ file[1] = "test_"
    /\ file[Len(file) - 1] = "."
    /\ file[Len(file)] = ext

FnFilter(files, ext) == SelectSeq(files, LAMBDA f : FnMatch(f, ext))

\* os.path.join(root, file): the separator is added unless root is empty
\* or ends in one.
PathJoin(root, file) ==
    IF root = <<>> \/ root[Len(root)] = "/"
    THEN root \o file
    ELSE root \o <<"/">> \o file

\* `name, ext = file.split('.')` unpacks: the file name has one dot.
Unpacks(file) == Len(Split(file, ".", -1)) = 2

\* The `name` of `name, ext = file.split('.')` when it unpacks.
FileStem(file) == Split(file, ".", -1)[1]

Range(s) == {s[i] : i \in 1..Len(s)}

-----------------------------------------------------------------------------
(* find_test_files: the walk *)

IpaUtilsException(msg, a, b) == <<"IpaUtilsException", msg, a, b>>

NoError == <<>>

\* The ValueError of `name, ext = file.split('.')` on a name with more
\* than one dot.
ValueError == <<"ValueError", "too many values to unpack (expected 2)",
                <<>>, <<>>>>

add_test_overwrite(st, name, path) ==
    [st EXCEPT !.tests = DictSet(@, name, path)]

\* One test file: lines 120-128.
add_test(st, name, path) ==
    IF name \notin DOMAIN st.tests
    THEN [st EXCEPT !.tests = DictSet(@, name, path)]
    ELSE [st EXCEPT !.err = IpaUtilsException(
              "Duplicate test file name found", path, st.tests[name])]

\* One description file: lines 131-144.
add_description(st, name, path) ==
    IF name \in DOMAIN st.tests
    THEN [st EXCEPT !.err = IpaUtilsException(
              "Test description name matches test file", path, st.tests[name])]
    ELSE IF name \notin DOMAIN st.descriptions
    THEN [st EXCEPT !.descriptions = DictSet(@, name, path)]
    ELSE [st EXCEPT !.err = IpaUtilsException(
              "Duplicate test description file name found", path,
              st.descriptions[name])]

\* `for test_file in test_files:` of one directory; a raise ends the walk.
RECURSIVE AddTestFiles(_, _, _)
AddTestFiles(st, root, files) ==
    IF files = <<>> \/ st.err # NoError
    THEN st
    ELSE AddTestFiles(
             IF Unpacks(Head(files))
             THEN add_test(st, FileStem(Head(files)),
                           PathJoin(root, Head(files)))
             ELSE [st EXCEPT !.err = ValueError],
             root, Tail(files))

\* `for description_file in description_files:` of one directory.
RECURSIVE AddDescriptionFiles(_, _, _)
AddDescriptionFiles(st, root, files) ==
    IF files = <<>> \/ st.err # NoError
    THEN st
    ELSE AddDescriptionFiles(
             IF Unpacks(Head(files))
             THEN add_description(st, FileStem(Head(files)),
                                  PathJoin(root, Head(files)))
             ELSE [st EXCEPT !.err = ValueError],
             root, Tail(files))

\* `for root, dirs, files in os.walk(test_dir):` the test files of a
\* directory, then its description files.
RECURSIVE WalkDirs(_, _)
WalkDirs(st, walk) ==
    IF walk = <<>> \/ st.err # NoError
    THEN st
    ELSE LET d == Head(walk)
             t == AddTestFiles(st, d.root, FnFilter(d.files, "py"))
         IN  WalkDirs(
                 AddDescriptionFiles(t, d.root, FnFilter(d.files, "yaml")),
                 Tail(walk))

\* `for test_dir in test_dirs:`
RECURSIVE WalkRoots(_, _)
WalkRoots(st, dirs) ==
    IF dirs = <<>> \/ st.err # NoError
    THEN st
    ELSE WalkRoots(WalkDirs(st, tree[Head(dirs)]), Tail(dirs))

\* Lines 112-144: the two dicts, or the exception raised.
Catalog ==
    WalkRoots([tests |-> EmptyDict, descriptions |-> EmptyDict,
               err |-> NoError], test_dirs)

\* tests.update(descriptions)
DictUpdate(d, e) ==
    [x \in DOMAIN d \cup DOMAIN e |-> IF x \in DOMAIN e THEN e[x] ELSE d[x]]

\* Python's None, a list, and a sequence that is no list (a tuple); the
\* test `if v:` / `not v` on such a value.
None == [none |-> TRUE, val |-> <<>>, list |-> FALSE]
Some(v) == [none |-> FALSE, val |-> v, list |-> TRUE]
NonList(v) == [none |-> FALSE, val |-> v, list |-> FALSE]
Falsy(v) == v.none \/ v.val = <<>>

\* The message of lines 107-110.
NamesMessage ==
    "Names must be a list containing test names and/or test descriptions."

\* Lines 106-144: `names` that is given and is no list raises before any
\* walk; else the walk fills the two dicts or raises.
FindTestFiles ==
    /\ fpc = "start"
    /\ IF ~ Falsy(names_arg) /\ ~ names_arg.list
       THEN /\ outcome' = [kind |-> "exc",
                           val |-> IpaUtilsException(NamesMessage,
                                                     <<>>, <<>>)]
            /\ fpc' = "done"
            /\ UNCHANGED <<tests, descriptions>>
       ELSE LET c == Catalog
            IN  /\ tests' = c.tests
                /\ descriptions' = c.descriptions
                /\ IF c.err # NoError
                   THEN /\ outcome' = [kind |-> "exc", val |-> c.err]
                        /\ fpc' = "done"
                   ELSE /\ fpc' = "walked"
                        /\ UNCHANGED outcome
    /\ UNCHANGED <<test_dirs, tree, yaml, names_arg, names, description_names,
                   stack, parsed, loaded, expansion, connVars, ec2Vars>>

\* Lines 146-152: for a falsy `names`, tests.update(descriptions) and the
\* updated dict is returned; else the requested names are split into the
\* descriptions and the rest.
SelectNames ==
    /\ fpc = "walked"
    /\ IF Falsy(names_arg)
       THEN /\ tests' = DictUpdate(tests, descriptions)
            /\ outcome' = [kind |-> "map",
                           val |-> DictUpdate(tests, descriptions)]
            /\ fpc' = "done"
            /\ UNCHANGED <<names, description_names>>
       ELSE /\ description_names' =
                   Range(names_arg.val) \cap DOMAIN descriptions
            /\ names' = Range(names_arg.val) \ DOMAIN descriptions
            /\ fpc' = "expand"
            /\ UNCHANGED <<tests, outcome>>
    /\ UNCHANGED <<test_dirs, tree, yaml, names_arg, descriptions, stack,
                   parsed, loaded, expansion, connVars, ec2Vars>>

-----------------------------------------------------------------------------
(* get_tests_from_description *)

\* get_yaml_config(path): the keys 'tests' and 'include', empty when absent.
get_yaml_config(path) == yaml[path]

in_parsed_never(description, plist) == FALSE

\* `if description in parsed:`
in_parsed(description, plist) == description \in Range(plist)

parsed_after_return_pop(plist) == SubSeq(plist, 1, Len(plist) - 1)

\* `return tests`: the shared list keeps every path appended to it.
parsed_after_return(plist) == plist

\* Lines 230-248 for one call: the lookup raises, or the description is
\* already parsed and [] is returned, or a frame is entered with the
\* description's own tests.
Call(name, plist) ==
    IF name \notin DOMAIN descriptions
    THEN [kind |-> "raise",
          exc |-> IpaUtilsException(
                      "Test description file cannot be located", name, <<>>)]
    ELSE LET description == descriptions[name]
         IN  IF in_parsed(description, plist)
             THEN [kind |-> "return"]
             ELSE [kind |-> "enter",
                   frame |-> [name |-> name,
                              description |-> description,
                              tests |-> get_yaml_config(description).tests,
                              include |-> get_yaml_config(description).include,
                              idx |-> 1]]

Top == stack[Len(stack)]

\* `for name in description_names:` calls get_tests_from_description(name,
\* descriptions): `parsed` is None, so the call makes a new list.
ExpandDescription(name) ==
    /\ fpc = "expand"
    /\ stack = <<>>
    /\ name \in description_names
    /\ LET r == Call(name, <<>>)
       IN  /\ r.kind = "enter"
           /\ stack' = <<r.frame>>
           /\ parsed' = <<r.frame.description>>
           /\ loaded' = <<r.frame.description>>
    /\ UNCHANGED <<test_dirs, tree, yaml, names_arg, fpc, tests, descriptions,
                   names, description_names, expansion, outcome, connVars, ec2Vars>>

\* `for description_name in test_data.get('include'):` the recursive call
\* for the next entry, which raises, returns [] or enters a frame.
IncludeCall ==
    /\ fpc = "expand"
    /\ stack # <<>>
    /\ Top.idx <= Len(Top.include)
    /\ LET r == Call(Top.include[Top.idx], parsed)
       IN  CASE r.kind = "raise" ->
                  /\ outcome' = [kind |-> "exc", val |-> r.exc]
                  /\ fpc' = "done"
                  /\ stack' = <<>>
                  /\ UNCHANGED <<parsed, loaded>>
             [] r.kind = "return" ->
                  /\ stack' = [stack EXCEPT ![Len(stack)].idx = @ + 1]
                  /\ UNCHANGED <<parsed, loaded, outcome, fpc>>
             [] r.kind = "enter" ->
                  /\ stack' = Append(stack, r.frame)
                  /\ parsed' = Append(parsed, r.frame.description)
                  /\ loaded' = Append(loaded, r.frame.description)
                  /\ UNCHANGED <<outcome, fpc>>
    /\ UNCHANGED <<test_dirs, tree, yaml, names_arg, tests, descriptions,
                   names, description_names, expansion, connVars, ec2Vars>>

extend_tests_front(result, more) == more \o result

\* `tests += ...`
extend_tests(result, more) == result \o more

\* `return tests`: into `tests +=` of the calling frame, or into
\* names.update(...) of find_test_files.
ExpandReturn ==
    /\ fpc = "expand"
    /\ stack # <<>>
    /\ Top.idx > Len(Top.include)
    /\ parsed' = parsed_after_return(parsed)
    /\ IF Len(stack) > 1
       THEN /\ stack' = [SubSeq(stack, 1, Len(stack) - 1) EXCEPT
                            ![Len(stack) - 1].tests =
                                extend_tests(stack[Len(stack) - 1].tests,
                                             Top.tests),
                            ![Len(stack) - 1].idx = @ + 1]
            /\ UNCHANGED <<names, description_names, expansion>>
       ELSE /\ stack' = <<>>
            /\ names' = names \cup Range(Top.tests)
            /\ description_names' = description_names \ {Top.name}
            /\ expansion' = [name |-> Top.name, tests |-> Top.tests]
    /\ UNCHANGED <<test_dirs, tree, yaml, names_arg, fpc, tests, descriptions,
                   loaded, outcome, connVars, ec2Vars>>

-----------------------------------------------------------------------------
(* find_test_files: the lookup *)

\* `test_name, test_case = name.split('::', 1)`, or (name, None) when the
\* unpacking raises.
SplitCase(name) ==
    LET p == Split(name, "::", 1)
    IN  IF Len(p) = 2
        THEN [test_name |-> p[1], test_case |-> Some(p[2])]
        ELSE [test_name |-> name, test_case |-> None]

test_path_nocase(name) == tests[SplitCase(name).test_name]

\* Lines 168-175 for a name whose test file is known.
test_path(name) ==
    LET s == SplitCase(name)
    IN  IF ~ Falsy(s.test_case)
        THEN tests[s.test_name] \o <<"::">> \o s.test_case.val
        ELSE tests[s.test_name]

\* The names of the set whose test file is not in `tests`.
Unknown(ns) == {n \in ns : SplitCase(n).test_name \notin DOMAIN tests}

\* Lines 161-178: `for name in names:` over the set, in whatever order the
\* set iterates; the first unknown test name raises.
Lookup ==
    /\ fpc = "expand"
    /\ stack = <<>>
    /\ description_names = {}
    /\ IF Unknown(names) # {}
       THEN \E n \in Unknown(names) :
               outcome' = [kind |-> "exc",
                           val |-> IpaUtilsException(
                                       "Test file cannot be found",
                                       SplitCase(n).test_name, <<>>)]
       ELSE outcome' = [kind |-> "map",
                        val |-> [n \in names |-> test_path(n)]]
    /\ fpc' = "done"
    /\ UNCHANGED <<test_dirs, tree, yaml, names_arg, tests, descriptions,
                   names, description_names, stack, parsed, loaded,
                   expansion, connVars, ec2Vars>>

NextTests ==
    \/ FindTestFiles
    \/ SelectNames
    \/ \E n \in description_names : ExpandDescription(n)
    \/ IncludeCall
    \/ ExpandReturn
    \/ Lookup

-----------------------------------------------------------------------------
(* The file systems and requests find_test_files is run on *)

\* Directories walked in one run.
MaxDirs == 2
\* Files of one directory.
MaxFiles == 2
\* Length of the list `names`.
MaxNames == 2
\* `include` entries of all description documents together.
MaxEdges == 4

TestName(n) == <<"test_", n>>
PyFile(n) == <<"test_", n, ".", "py">>
YamlFile(n) == <<"test_", n, ".", "yaml">>
SubCase(t, c) == t \o <<"::">> \o c

\* The i-th directory of a walk: nested below one root, or roots of their own.
RootNames == <<"r", "q", "p", "o">>
RECURSIVE NestedPath(_)
NestedPath(i) == IF i = 1 THEN <<"/", "r">> ELSE NestedPath(i - 1) \o <<"/", "s">>
DirPath(layout, i) ==
    IF layout = "nested" THEN NestedPath(i) ELSE <<"/", RootNames[i]>>

\* The files a directory may hold and the listings made of them: up to
\* MaxFiles of the files, in any order, as os.walk gives the files of a
\* directory in no particular order.
FileList == <<YamlFile("x"), PyFile("x"), YamlFile("y"), PyFile("y")>>
Listings ==
    UNION {{l \in [1..k -> Range(FileList)] :
               \A i, j \in 1..k : i # j => l[i] # l[j]} : k \in 0..MaxFiles}

\* Every directory of the tree, in no order.
AllDirs(tr) == UNION {Range(tr[r]) : r \in DOMAIN tr}

\* The description files of a tree.
YamlPaths(tr) ==
    UNION {{PathJoin(d.root, f) : f \in Range(FnFilter(d.files, "yaml"))} :
              d \in AllDirs(tr)}

\* The documents of the descriptions x, y, a, b when they are not drawn.
FixedDoc(n) ==
    CASE n = "x" -> [tests |-> <<TestName("x"), SubCase(TestName("y"), <<"k">>)>>,
                     include |-> <<>>]
      [] n = "y" -> [tests |-> <<SubCase(TestName("x"), <<"k">>)>>,
                     include |-> <<TestName("x")>>]
      [] n = "a" -> [tests |-> <<SubCase(TestName("x"), <<"k">>), TestName("y")>>,
                     include |-> <<TestName("b")>>]
      [] n = "b" -> [tests |-> <<TestName("y"),
                                 SubCase(TestName("x"), <<"k", "::", "m">>)>>,
                     include |-> <<TestName("a")>>]
      [] OTHER -> [tests |-> <<>>, include |-> <<>>]

\* The name lexeme of a path that ends in test_<n>.<ext>.
StemOf(path) == path[Len(path) - 2]

CatalogRequests ==
    {None, Some(<<>>), Some(<<TestName("x")>>),
     Some(<<TestName("y"), SubCase(TestName("x"), <<"k">>)>>)}

NotStarted ==
    /\ fpc = "start"
    /\ tests = EmptyDict
    /\ descriptions = EmptyDict
    /\ names = {}
    /\ description_names = {}
    /\ stack = <<>>
    /\ parsed = <<>>
    /\ loaded = <<>>
    /\ expansion = [name |-> <<>>, tests |-> <<>>]
    /\ outcome = NoRet

\* The files the first k directories of a walk list.
RECURSIVE Listed(_, _)
Listed(ls, k) == IF k = 0 THEN 0 ELSE Len(ls[k]) + Listed(ls, k - 1)

\* Walks: up to MaxDirs directories, each with up to MaxFiles of the files
\* test_x.py, test_x.yaml, test_y.py, test_y.yaml in any order, and no
\* more than MaxFiles + 2 files in all.
InitCatalog ==
    \E layout \in {"nested", "roots"}, k \in 1..MaxDirs :
      \E ls \in [1..k -> Listings] :
        /\ Listed(ls, k) <= MaxFiles + 2
        /\ test_dirs = IF layout = "nested" THEN <<DirPath(layout, 1)>>
                       ELSE [i \in 1..k |-> DirPath(layout, i)]
        /\ tree = IF layout = "nested"
                  THEN [r \in {DirPath(layout, 1)} |->
                          [i \in 1..k |->
                             [root |-> DirPath(layout, i), files |-> ls[i]]]]
                  ELSE [r \in {DirPath(layout, i) : i \in 1..k} |->
                          <<[root |-> r,
                             files |-> ls[CHOOSE i \in 1..k :
                                             DirPath(layout, i) = r]]>>]
        /\ yaml = [p \in YamlPaths(tree) |-> FixedDoc(StemOf(p))]
        /\ names_arg \in CatalogRequests

\* Requests: lists of up to MaxNames names over one tree with the tests x
\* and y and the descriptions a and b (which include each other).
NamePool ==
    {TestName("x"), TestName("y"), TestName("z"), TestName("a"), TestName("b"),
     SubCase(TestName("x"), <<"k">>),
     SubCase(TestName("x"), <<"k", "::", "m">>),
     SubCase(TestName("y"), <<>>)}

SelectTree ==
    [r \in {DirPath("nested", 1)} |->
       <<[root |-> DirPath("nested", 1),
          files |-> <<<<"conftest", ".", "py">>, PyFile("x"),
                      <<"test_", "x", ".", "txt">>, PyFile("y")>>],
         [root |-> DirPath("nested", 2),
          files |-> <<YamlFile("a"), YamlFile("b")>>]>>]

InitSelect ==
    /\ test_dirs = <<DirPath("nested", 1)>>
    /\ tree = SelectTree
    /\ yaml = [p \in YamlPaths(tree) |-> FixedDoc(StemOf(p))]
    /\ names_arg \in {Some(l) : l \in UNION {[1..k -> NamePool] :
                                                k \in 1..MaxNames}}

\* Unusual names: the root '/r/', given with its trailing separator, holds
\* up to MaxFiles of: a test and a description with two dots in the name,
\* a test whose name holds '::', the tests a and x; its subdirectory s is
\* empty or holds a test x; `names` may be a tuple.
OddFiles ==
    <<<<"test_", "a", ".", "b", ".", "py">>,
      <<"test_", "a", ".", "b", ".", "yaml">>,
      <<"test_", "a", "::", "b", ".", "py">>,
      PyFile("a"),
      PyFile("x")>>

OddListings ==
    UNION {{l \in [1..k -> Range(OddFiles)] :
               \A i, j \in 1..k : i # j => l[i] # l[j]} : k \in 0..MaxFiles}

OddRequests ==
    {None, NonList(<<>>), NonList(<<TestName("x")>>),
     Some(<<SubCase(TestName("x"), <<"k">>)>>),
     Some(<<SubCase(TestName("a"), <<"b">>)>>)}

InitOdd ==
    \E l \in OddListings, sub \in {<<>>, <<PyFile("x")>>} :
        /\ test_dirs = <<<<"/", "r", "/">>>>
        /\ tree = [r \in {<<"/", "r", "/">>} |->
                      <<[root |-> r, files |-> l],
                        [root |-> PathJoin(r, <<"s">>), files |-> sub]>>]
        /\ yaml = [p \in YamlPaths(tree) |-> [tests |-> <<>>, include |-> <<>>]]
        /\ names_arg \in OddRequests

\* Include graphs: the descriptions a, b, c, d in one directory with the
\* tests x and y; the documents' include lists hold up to MaxEdges entries
\* in all, in any order and with repetitions; d's file may be missing.
GraphNames == <<"a", "b", "c", "d">>
GraphIdx == 1..Len(GraphNames)
OwnTests(n) ==
    CASE n = "a" -> <<TestName("x")>>
      [] n = "b" -> <<SubCase(TestName("x"), <<"k">>), TestName("y")>>
      [] n = "c" -> <<TestName("y")>>
      [] OTHER -> <<SubCase(TestName("y"), <<"k", "::", "m">>)>>

\* Include lists of up to n entries.
IncludeLists(n) == UNION {[1..k -> GraphIdx] : k \in 0..n}

\* The indices reachable from those of S along the include lists inc.
RECURSIVE ReachIdx(_, _)
ReachIdx(S, inc) ==
    LET N == S \cup UNION {Range(inc[i]) : i \in S}
    IN  IF N = S THEN S ELSE ReachIdx(N, inc)

GraphFiles(present) ==
    <<PyFile("x"), PyFile("y")>>
       \o [i \in 1..present |-> YamlFile(GraphNames[i])]

\* The include lists of a description that a cannot reach do not change
\* the expansion of a: they are kept empty.
InitGraph ==
    \E ia \in IncludeLists(MaxEdges) :
    \E ib \in IncludeLists(MaxEdges - Len(ia)) :
    \E ic \in IncludeLists(MaxEdges - Len(ia) - Len(ib)) :
    \E id \in IncludeLists(MaxEdges - Len(ia) - Len(ib) - Len(ic)) :
    \E present \in {Len(GraphNames) - 1, Len(GraphNames)} :
        LET inc == <<ia, ib, ic, id>>
        IN  /\ \A i \in GraphIdx : inc[i] # <<>> => i \in ReachIdx({1}, inc)
            /\ test_dirs = <<DirPath("nested", 1)>>
            /\ tree = [r \in {DirPath("nested", 1)} |->
                         <<[root |-> r, files |-> GraphFiles(present)]>>]
            /\ yaml = [p \in YamlPaths(tree) |->
                         LET i == CHOOSE j \in GraphIdx :
                                      GraphNames[j] = StemOf(p)
                         IN  [tests |-> OwnTests(GraphNames[i]),
                              include |-> [j \in 1..Len(inc[i]) |->
                                  TestName(GraphNames[inc[i][j]])]]]
            /\ names_arg = Some(<<TestName("a")>>)

InitTests ==
    /\ ConnInit
    /\ Ec2Idle
    /\ NotStarted
    /\ (InitCatalog \/ InitSelect \/ InitGraph \/ InitOdd)

SpecTests == InitTests /\ [][NextTests]_vars

-----------------------------------------------------------------------------
(* What a step did, read off the caller's frame before and after it *)

\* The caller enters operation `op` in this step.
Enters(t, op) ==
    /\ thread[t].pc = "idle"
    /\ thread'[t] # thread[t]
    /\ thread'[t].op = op

\* A running get_ssh_client returns or raises in this step.
Leaves(t) ==
    /\ thread[t].pc # "idle"
    /\ thread'[t].pc = "idle"
    /\ thread'[t].op = "get_ssh_client"

\* The caller has finished operation `op` and holds its result.
Finished(t, op) == thread[t].pc = "idle" /\ thread[t].op = op

\* C1 (cache reuse): once get_ssh_client has returned a client for a host,
\* the cache holds that client for the host until a clear_cache; and every
\* get_ssh_client entered while the host is cached returns, in that very
\* step, the cached object itself, whatever attempts and timeout are and
\* whether or not the session is alive, with no establish_ssh_connection
\* call, no client.connect, no canary command, and cache and clients
\* untouched.
C1_CacheReuse ==
    [][\A t \in Threads :
          /\ (Enters(t, "get_ssh_client") /\ Cached(thread'[t].ip)) =>
                /\ thread'[t].pc = "idle"
                /\ thread'[t].ret =
                      [kind |-> "client", val |-> CLIENT_CACHE[thread'[t].ip]]
                /\ thread'[t].nEstablish = 0
                /\ thread'[t].nConnect = 0
                /\ thread'[t].nCanary = 0
                /\ CLIENT_CACHE' = CLIENT_CACHE
                /\ clients' = clients
          /\ (Leaves(t) /\ thread'[t].ret.kind = "client") =>
                /\ thread'[t].ip \in DOMAIN CLIENT_CACHE'
                /\ CLIENT_CACHE'[thread'[t].ip] = thread'[t].ret.val
          /\ ~ Enters(t, "clear_cache") =>
                \A h \in DOMAIN CLIENT_CACHE :
                    /\ h \in DOMAIN CLIENT_CACHE'
                    /\ CLIENT_CACHE'[h] = CLIENT_CACHE[h]
      ]_vars

\* C1 witness: a get_ssh_client with attempts = 0 has returned the cached
\* client of a session that is no longer alive, without connecting.
C1_Witness ==
    \E t \in Threads :
        /\ Finished(t, "get_ssh_client")
        /\ thread[t].hit
        /\ thread[t].argAttempts = 0
        /\ thread[t].ret.kind = "client"
        /\ CLIENT_CACHE[thread[t].ip] = thread[t].ret.val
        /\ ~ clients[thread[t].ret.val].alive
        /\ thread[t].nConnect = 0

\* C2 (cache invalidation): clear_cache(host) leaves the host uncached and
\* clear_cache() leaves every host uncached; a get_ssh_client entered for
\* an uncached host returns nothing at once but starts the retry loop; when
\* it then returns a client, client.connect and the canary command were
\* invoked in that call, the client is none of those clear_cache removed for
\* the host, and the cache holds it; a call with attempts # 0 that ends has
\* invoked client.connect; and the cache never again holds a removed client.
C2_CacheInvalidation ==
    [][\A t \in Threads :
          /\ Enters(t, "clear_cache") =>
                \A h \in Hosts :
                    (thread'[t].ip \in {h, "None", ""}) =>
                        h \notin DOMAIN CLIENT_CACHE'
          /\ (Enters(t, "get_ssh_client") /\ ~ Cached(thread'[t].ip)) =>
                /\ thread'[t].pc = "gsc_loop"
                /\ thread'[t].ret = NoRet
          /\ (Leaves(t) /\ thread'[t].ret.kind = "client") =>
                /\ ~ thread'[t].hit
                /\ thread'[t].nConnect >= 1
                /\ thread'[t].nCanary >= 1
                /\ thread'[t].ret.val \notin evicted[thread'[t].ip]
                /\ thread'[t].ret.val \notin
                      {CLIENT_CACHE[h] : h \in DOMAIN CLIENT_CACHE}
                /\ CLIENT_CACHE'[thread'[t].ip] = thread'[t].ret.val
          /\ (Leaves(t) /\ thread'[t].argAttempts # 0) =>
                thread'[t].nConnect >= 1
          /\ \A h \in DOMAIN CLIENT_CACHE' :
                CLIENT_CACHE'[h] \notin evicted'[h]
      ]_vars

\* C2 witness: after a clear_cache removed the host's client, a
\* get_ssh_client for the host has connected afresh and cached a new client.
C2_Witness ==
    \E t \in Threads :
        /\ Finished(t, "get_ssh_client")
        /\ ~ thread[t].hit
        /\ thread[t].ret.kind = "client"
        /\ evicted[thread[t].ip] # {}
        /\ thread[t].ret.val \notin evicted[thread[t].ip]
        /\ CLIENT_CACHE[thread[t].ip] = thread[t].ret.val
        /\ thread[t].nConnect >= 1

\* get_ssh_client has raised and no client.connect of the call succeeded.
ExhaustedNeverConnected(t) ==
    /\ Finished(t, "get_ssh_client")
    /\ thread[t].ret.kind = "exc"
    /\ thread[t].nConnected = 0
    /\ thread[t].argAttempts >= 1

\* C3 as claimed (retry exhaustion): when every client.connect fails,
\* get_ssh_client(host, attempts = n), n >= 1, raises after exactly n
\* invocations of client.connect.
C3_AsClaimed ==
    \A t \in Threads :
        ExhaustedNeverConnected(t) =>
            thread[t].nConnect = thread[t].argAttempts

\* C3 as amended: when every client.connect fails, get_ssh_client(host,
\* attempts = n), n >= 1, raises after exactly n calls of
\* establish_ssh_connection, each of which invokes client.connect
\* ESTABLISH_ATTEMPTS (5) times and sleeps after each: 5 n invocations of
\* client.connect in all, and no raise while fewer were made.
C3_RetryExhaustion ==
    \A t \in Threads :
        /\ ExhaustedNeverConnected(t) =>
              /\ thread[t].nEstablish = thread[t].argAttempts
              /\ thread[t].nConnect =
                    ESTABLISH_ATTEMPTS * thread[t].argAttempts
              /\ thread[t].nCanary = 0
              /\ thread[t].attempts = 0
        /\ (thread[t].op = "get_ssh_client" /\ thread[t].ret.kind = "exc") =>
              thread[t].nEstablish = thread[t].argAttempts

\* C3 witness: get_ssh_client(host, attempts = 3) has raised after 3
\* establish_ssh_connection calls, 15 failed client.connect invocations.
C3_Witness ==
    \E t \in Threads :
        /\ ExhaustedNeverConnected(t)
        /\ thread[t].argAttempts = CLIENT_ATTEMPTS
        /\ thread[t].nEstablish = CLIENT_ATTEMPTS
        /\ thread[t].nConnect = CLIENT_ATTEMPTS * ESTABLISH_ATTEMPTS
        /\ CLIENT_CACHE = EmptyDict

\* The positions of event `e` in the channel log `io`.
IoAt(io, e) == {i \in 1..Len(io) : io[i][1] = e}

\* C9 (command failure surfaces stderr): execute_ssh_command issues the
\* command exactly once and first; when the channel opens it reads stderr
\* before stdout; non-empty error output is raised as the exception's
\* payload, unchanged, and stdout is then neither read nor returned; empty
\* error output makes it return the whole of stdout.
C9_CommandFailure ==
    \A t \in Threads :
        Finished(t, "execute_ssh_command") =>
            LET f == thread[t]
            IN  /\ IoAt(f.io, "exec_command") = {1}
                /\ f.io[1] = <<"exec_command", f.cmd>>
                /\ ~ f.resp.raises =>
                      /\ IoAt(f.io, "stderr.read") = {2}
                      /\ \A i \in IoAt(f.io, "stdout.read") : i > 2
                /\ (~ f.resp.raises /\ f.resp.err # <<>>) =>
                      /\ f.ret = [kind |-> "exc", val |-> f.resp.err]
                      /\ IoAt(f.io, "stdout.read") = {}
                /\ (~ f.resp.raises /\ f.resp.err = <<>>) =>
                      /\ f.ret = [kind |-> "out", val |-> f.resp.out]
                      /\ IoAt(f.io, "stdout.read") = {3}

\* C9 witness: a command that wrote to both streams has raised its error
\* output and returned no stdout.
C9_Witness ==
    \E t \in Threads :
        /\ Finished(t, "execute_ssh_command")
        /\ ~ thread[t].resp.raises
        /\ thread[t].resp.err # <<>>
        /\ thread[t].resp.out # <<>>
        /\ thread[t].ret = [kind |-> "exc", val |-> thread[t].resp.err]

-----------------------------------------------------------------------------
(* The test search: what the file system and the documents say *)

\* How often x occurs in the sequence s.
Count(s, x) == Cardinality({i \in 1..Len(s) : s[i] = x})

\* The document of description n.
Doc(n) == yaml[descriptions[n]]

\* The descriptions reachable from those of S along include entries.
RECURSIVE ReachNames(_)
ReachNames(S) ==
    LET N == S \cup (UNION {Range(Doc(n).include) : n \in S}
                        \cap DOMAIN descriptions)
    IN  IF N = S THEN S ELSE ReachNames(N)

\* The sum over the descriptions of S of the occurrences of x in their own
\* tests lists.
RECURSIVE OwnCount(_, _)
OwnCount(S, x) ==
    IF S = {} THEN 0
    ELSE LET n == CHOOSE m \in S : TRUE
         IN  Count(Doc(n).tests, x) + OwnCount(S \ {n}, x)

\* The last top-level get_tests_from_description call has returned.
Returned ==
    /\ expansion.name # <<>>
    /\ stack = <<>>
    /\ loaded # <<>>
    /\ loaded[1] = descriptions[expansion.name]
    /\ ~ (outcome.kind = "exc"
            /\ outcome.val[2] = "Test description file cannot be located")

\* What is left to do in the running expansion: it falls with every step.
Measure ==
    LET K == 2 + Cardinality(UNION {1..Len(yaml[p].include) :
                                       p \in DOMAIN yaml})
        RECURSIVE Frames(_)
        Frames(i) == IF i = 0 THEN 0
                     ELSE Len(stack[i].include) - stack[i].idx + 2
                             + Frames(i - 1)
    IN  K * (Cardinality(DOMAIN descriptions) - Len(parsed))
           + Frames(Len(stack))

\* C4 (cycle termination): in every expansion, with or without include
\* cycles and self-includes, no description is loaded twice, the recursion
\* is never deeper than there are descriptions, and every step of the
\* expansion lowers a measure that is never negative, so the expansion
\* ends; and when it returns, it has loaded exactly the descriptions
\* reachable from the root and the list returned holds each test identifier
\* as often as the own tests lists of the reachable descriptions hold it.
C4_CycleTermination ==
    /\ [](/\ \A p \in Range(loaded) : Count(loaded, p) = 1
          /\ Len(stack) <= Cardinality(DOMAIN descriptions)
          /\ stack # <<>> => Measure >= 0
          /\ Returned =>
                LET R == ReachNames({expansion.name})
                IN  /\ Range(loaded) = {descriptions[n] : n \in R}
                    /\ \A x \in Range(expansion.tests)
                                  \cup UNION {Range(Doc(n).tests) : n \in R} :
                          Count(expansion.tests, x) = OwnCount(R, x))
    /\ [][(stack # <<>> /\ stack' # <<>>) => Measure' < Measure]_vars

\* C4 witness: the expansion of a description that includes itself and a
\* description that includes it back has returned.
C4_Witness ==
    /\ Returned
    /\ LET a == expansion.name
       IN  /\ a \in Range(Doc(a).include)
           /\ \E b \in ReachNames({a}) \ {a} : a \in Range(Doc(b).include)
    /\ expansion.tests # <<>>

\* The include entries of the descriptions of R that name n.
RECURSIVE InDegree(_, _)
InDegree(R, n) ==
    IF R = {} THEN 0
    ELSE LET m == CHOOSE k \in R : TRUE
         IN  Count(Doc(m).include, n) + InDegree(R \ {m}, n)

\* C5 (diamond dedup): when an expansion has returned, a description that
\* several include entries of the reachable descriptions name (or the root,
\* named by one) was loaded once, and a test identifier that only its own
\* tests list holds is in the result as often as in that list.
C5_DiamondDedup ==
    Returned =>
        LET R == ReachNames({expansion.name})
        IN  \A n \in R :
                InDegree(R, n) + (IF n = expansion.name THEN 1 ELSE 0) >= 2 =>
                    /\ Count(loaded, descriptions[n]) = 1
                    /\ \A x \in Range(Doc(n).tests) :
                          OwnCount(R \ {n}, x) = 0 =>
                              Count(expansion.tests, x) = Count(Doc(n).tests, x)

\* C5 witness: a includes b and c, b and c each include d, and d's test is
\* once in the expansion of a.
C5_Witness ==
    /\ Returned
    /\ expansion.name = TestName("a")
    /\ Doc(TestName("a")).include = <<TestName("b"), TestName("c")>>
    /\ Doc(TestName("b")).include = <<TestName("d")>>
    /\ Doc(TestName("c")).include = <<TestName("d")>>
    /\ TestName("d") \in DOMAIN descriptions
    /\ Doc(TestName("d")).include = <<>>
    /\ Count(expansion.tests, SubCase(TestName("y"), <<"k", "::", "m">>)) = 1

\* The files in the order the walk discovers them: per root and directory,
\* the test files, then the description files.
DirEvents(d) ==
    LET py == FnFilter(d.files, "py")
        ym == FnFilter(d.files, "yaml")
        Event(kind, f) ==
            IF Unpacks(f) THEN [kind |-> kind, name |-> FileStem(f)]
            ELSE [kind |-> "unpack", name |-> f]
    IN  [i \in 1..Len(py) |-> Event("test", py[i])]
           \o [i \in 1..Len(ym) |-> Event("description", ym[i])]

RECURSIVE WalkEvents(_)
WalkEvents(walk) ==
    IF walk = <<>> THEN <<>>
    ELSE DirEvents(Head(walk)) \o WalkEvents(Tail(walk))

RECURSIVE Discovered(_)
Discovered(dirs) ==
    IF dirs = <<>> THEN <<>>
    ELSE WalkEvents(tree[Head(dirs)]) \o Discovered(Tail(dirs))

\* File j has the name of an earlier file of its kind, or is a description
\* with the name of an earlier test.
CollidesAt(ev, j) ==
    \E i \in 1..(j - 1) :
        /\ ev[j].kind # "unpack"
        /\ ev[i].name = ev[j].name
        /\ \/ ev[i].kind = ev[j].kind
           \/ ev[i].kind = "test" /\ ev[j].kind = "description"

\* The message find_test_files owes for the collision at file j.
CollisionMessage(ev, j) ==
    IF ev[j].kind = "test" THEN "Duplicate test file name found"
    ELSE IF \E i \in 1..(j - 1) : ev[i].kind = "test" /\ ev[i].name = ev[j].name
    THEN "Test description name matches test file"
    ELSE "Duplicate test description file name found"

ConflictMessages ==
    {"Duplicate test file name found",
     "Test description name matches test file",
     "Duplicate test description file name found"}

ConflictRaised ==
    /\ fpc = "done"
    /\ outcome.kind = "exc"
    /\ outcome.val[2] \in ConflictMessages

\* find_test_files raised before the walk or in it.
WalkRaised ==
    /\ fpc = "done"
    /\ outcome.kind = "exc"
    /\ \/ outcome.val = ValueError
       \/ outcome.val[2] \in ConflictMessages \cup {NamesMessage}

\* The walk has come to file j: `names` passed the test of line 106 and no
\* earlier file name failed to unpack.
WalkReaches(ev, j) ==
    /\ Falsy(names_arg) \/ names_arg.list
    /\ \A i \in 1..(j - 1) : ev[i].kind # "unpack"

\* C6 (collision detection): once the walk is over, if it came to a file
\* that had the name of an earlier test file (both tests), of an earlier
\* description (both descriptions) or was a description named like an
\* earlier test, find_test_files has raised, for the first such file, the
\* exception of its kind, and returns no map whatever `names` is.
C6_CollisionDetection ==
    fpc # "start" =>
        LET ev == Discovered(test_dirs)
            J == {j \in 1..Len(ev) : CollidesAt(ev, j)}
        IN  J # {} =>
               LET j == CHOOSE k \in J : \A l \in J : k <= l
               IN  WalkReaches(ev, j) =>
                      /\ fpc = "done"
                      /\ outcome.kind = "exc"
                      /\ outcome.val[1] = "IpaUtilsException"
                      /\ outcome.val[2] = CollisionMessage(ev, j)

\* C6 witness: two roots each hold a test file of the same name and the
\* search has raised the duplicate.
C6_Witness ==
    /\ ConflictRaised
    /\ Len(test_dirs) = 2
    /\ outcome.val[2] = "Duplicate test file name found"
    /\ outcome.val[3] # outcome.val[4]

\* The walk is over and raised nothing, and line 147 has not merged the
\* descriptions into `tests`.
CatalogBuilt ==
    \/ fpc \in {"walked", "expand"}
    \/ fpc = "done" /\ ~ Falsy(names_arg) /\ ~ WalkRaised

\* C7 as claimed (catalog namespace invariant): after a walk that raised
\* nothing, no name is a key of both `tests` and `descriptions`.
C7_AsClaimed ==
    CatalogBuilt => DOMAIN tests \cap DOMAIN descriptions = {}

\* The test name of n, its part before the first '::', is t.
NamesTest(n, t) == SplitCase(n).test_name = t

\* The lookup loop (lines 161-178) was reached and has ended.
LookupRan ==
    /\ fpc = "done"
    /\ ~ Falsy(names_arg)
    /\ \/ outcome.kind = "map"
       \/ outcome.val[2] = "Test file cannot be found"

\* The sub-cases the requests and documents use: b, k and k::m.
SubCases == {<<"b">>, <<"k">>, <<"k", "::", "m">>}

\* The map returned has every name of the working set as a key and maps
\* the names t and t::c, c in Cs, to the path of t and to path::c.
Passthrough(Cs) ==
    (LookupRan /\ \A n \in names : \E t \in DOMAIN tests : NamesTest(n, t)) =>
        /\ outcome.kind = "map"
        /\ DOMAIN outcome.val = names
        /\ \A t \in DOMAIN tests :
              "::" \notin Range(t) =>
                  /\ t \in names => outcome.val[t] = tests[t]
                  /\ \A c \in Cs :
                        SubCase(t, c) \in names =>
                            outcome.val[SubCase(t, c)] =
                                tests[t] \o <<"::">> \o c

\* C8 as claimed (sub-case passthrough): every name t::c of the working
\* set, the empty c of 't::' included, maps to the path of t, '::' and c.
C8_AsClaimed == Passthrough(SubCases \cup {<<>>})

\* C8 as amended: every name t::c of the working set with a non-empty c
\* maps to the path of t, '::' and c, the split being at the first '::'
\* (t::k::m gives path::k::m); a name without '::' maps to the path alone,
\* and so does 't::', whose sub-case is empty.
C8_SubCasePassthrough ==
    /\ Passthrough(SubCases)
    /\ (LookupRan /\ outcome.kind = "map") =>
          \A t \in DOMAIN tests :
              ("::" \notin Range(t) /\ SubCase(t, <<>>) \in names) =>
                  outcome.val[SubCase(t, <<>>)] = tests[t]

\* C8 witness: a map was returned with test_x::k::m and test_y:: as keys.
C8_Witness ==
    /\ LookupRan
    /\ outcome.kind = "map"
    /\ SubCase(TestName("x"), <<"k", "::", "m">>) \in DOMAIN outcome.val
    /\ SubCase(TestName("y"), <<>>) \in DOMAIN outcome.val

\* The requested names, and those of them that are descriptions.
Requested == Range(names_arg.val)
RequestedDescriptions == Requested \cap DOMAIN descriptions

\* The working set the claim describes: the requested names that are no
\* descriptions and the own tests of every description reachable from a
\* requested one.
WorkingSet ==
    (Requested \ RequestedDescriptions)
       \cup UNION {Range(Doc(n).tests) : n \in ReachNames(RequestedDescriptions)}

\* C10 as claimed (test selection): when the lookup has ended, the keys of
\* the map are exactly the working set, no requested description name is a
\* key, and a name of the working set whose test is unknown makes the
\* search raise 'cannot be found' and return no map.
C10_AsClaimed ==
    LookupRan =>
        /\ outcome.kind = "map" =>
              /\ DOMAIN outcome.val = WorkingSet
              /\ RequestedDescriptions \cap DOMAIN outcome.val = {}
        /\ (\E n \in WorkingSet : \A t \in DOMAIN tests : ~ NamesTest(n, t)) =>
              /\ outcome.kind = "exc"
              /\ outcome.val[2] = "Test file cannot be found"

\* C11 (connection retry contract): in every call of
\* establish_ssh_connection with attempts = n >= 1 (the default 5
\* included), client.connect is invoked at most n times; the first
\* invocation that succeeds ends the call, which returns the client; every
\* failed invocation takes one attempt and is followed by one sleep of 10;
\* and the call raises IpaSSHException only when n invocations were made
\* and all failed.
C11_ConnectRetryContract ==
    \A t \in DOMAIN thread :
        LET f == thread[t]
            n == f.argAttempts
            failed == f.nConnect - f.nConnected
        IN  (f.op = "establish_ssh_connection" /\ n >= 1) =>
               /\ f.nConnect <= n
               /\ f.nConnected <= 1
               /\ f.est_attempts = n - failed
               /\ f.slept = RETRY_DELAY * failed
               /\ f.nConnected = 1 =>
                      f.pc = "idle" /\ f.ret.kind = "client"
               /\ f.pc = "idle" =>
                      \/ f.ret.kind = "client" /\ f.nConnected = 1
                      \/ /\ f.ret.kind = "exc"
                         /\ f.ret.val =
                               <<"Failed to establish SSH connection to instance.">>
                         /\ f.nConnect = n
                         /\ f.nConnected = 0
               /\ f.pc # "idle" => f.pc = "esc_loop" /\ f.nConnected = 0

\* C11 witness: a call with the default attempts = 5 has returned the
\* client at its third invocation of client.connect, after two sleeps.
C11_Witness ==
    \E t \in DOMAIN thread :
        /\ Finished(t, "establish_ssh_connection")
        /\ thread[t].argAttempts = ESTABLISH_ATTEMPTS
        /\ thread[t].ret.kind = "client"
        /\ thread[t].nConnect = 3
        /\ thread[t].slept = 2 * RETRY_DELAY

\* C12 (cache removal frame): a clear_cache(ip) step with a host given
\* removes that host's entry and leaves the entry of every other host as it
\* was, raises nothing and changes nothing when the host has no entry; a
\* clear_cache() step empties the cache; and a step that removes or
\* replaces an entry of the cache is a clear_cache step for that host or
\* for no host: no get_ssh_client step, returning or raising, and no
\* execute_ssh_command step does it.
C12_CacheRemovalFrame ==
    [][/\ \A t \in DOMAIN thread :
             Enters(t, "clear_cache") =>
                LET ip == thread'[t].ip
                IN  /\ thread'[t].pc = "idle"
                    /\ thread'[t].ret.kind = "ok"
                    /\ IF ip \in Hosts
                       THEN /\ DOMAIN CLIENT_CACHE' = DOMAIN CLIENT_CACHE \ {ip}
                            /\ \A h \in DOMAIN CLIENT_CACHE' :
                                  CLIENT_CACHE'[h] = CLIENT_CACHE[h]
                            /\ ~ Cached(ip) => CLIENT_CACHE' = CLIENT_CACHE
                       ELSE DOMAIN CLIENT_CACHE' = {}
       /\ \A h \in DOMAIN CLIENT_CACHE :
             (h \notin DOMAIN CLIENT_CACHE' \/ CLIENT_CACHE'[h] # CLIENT_CACHE[h])
                => \E t \in DOMAIN thread :
                      /\ Enters(t, "clear_cache")
                      /\ thread'[t].ip \in {h, "None", ""}]_vars

\* C12 witness: clear_cache(ip) has removed one host of two cached hosts
\* and the other host is still cached.
C12_Witness ==
    \E t \in DOMAIN thread, h \in Hosts :
        /\ Finished(t, "clear_cache")
        /\ thread[t].ip \in Hosts \ {h}
        /\ evicted[thread[t].ip] # {}
        /\ ~ Cached(thread[t].ip)
        /\ Cached(h)

\* C13 as claimed (client ownership): no client that clear_cache(ip) or
\* clear_cache() removed from the cache is still open.
C13_AsClaimed ==
    \A h \in Hosts : \A c \in evicted[h] : ~ clients[c].open

\* The lexemes of an exception's message.
Lexemes(msg) == {msg[i] : i \in 1..Len(msg)}

\* get_ssh_client has raised after its loop.
Exhausted(t) ==
    /\ Finished(t, "get_ssh_client")
    /\ thread[t].ret.kind = "exc"

\* C14 as claimed (exhaustion report): the exception get_ssh_client raises
\* after its attempts are exhausted names the host and the attempt count.
C14_AsClaimed ==
    \A t \in DOMAIN thread :
        Exhausted(t) =>
            /\ thread[t].ip \in Lexemes(thread[t].ret.val)
            /\ ToString(thread[t].argAttempts) \in Lexemes(thread[t].ret.val)

\* The caller's running call takes its next step: the code is scheduled.
RunningStep(t) ==
    \/ GetSshClientLoop(t)
    \/ ConnectFails(t)
    \/ ConnectSucceeds(t)
    \/ EstablishRaises(t)
    \/ \E resp \in Responses : Canary(t, resp)

\* The program with a caller that is never suspended for ever.
FairSpec == Spec /\ \A t \in Threads : WF_vars(RunningStep(t))

\* C15 as claimed (bounded retries): for every value of the attempts
\* arguments, 0 and negative values included, establish_ssh_connection
\* makes no more client.connect invocations and get_ssh_client no more
\* establish_ssh_connection calls than the attempts asked for (none for 0
\* and for a negative value); and a running call in which no
\* client.connect has succeeded ends: its failure is raised as
\* IpaSSHException (or a connect succeeds after all).
C15_AsClaimed ==
    /\ [](\A t \in Threads :
             LET asked == IF thread[t].argAttempts > 0
                          THEN thread[t].argAttempts ELSE 0
             IN  /\ thread[t].op = "establish_ssh_connection" =>
                       thread[t].nConnect <= asked
                 /\ thread[t].op = "get_ssh_client" =>
                       thread[t].nEstablish <= asked)
    /\ \A t \in Threads :
          (thread[t].pc # "idle" /\ thread[t].nConnected = 0)
             ~> \/ thread[t].pc = "idle" /\ thread[t].ret.kind = "exc"
                \/ thread[t].nConnected > 0

\* The clients the cache holds.
CachedClients == {CLIENT_CACHE[h] : h \in DOMAIN CLIENT_CACHE}

\* C16 (validated caching): every client in the cache is a client of its
\* host whose canary command passed, and it was stored by the step of the
\* get_ssh_client call that opened it and ran that canary without an
\* exception; a client whose canary failed is closed and is not in the
\* cache; and when get_ssh_client has raised after its loop, the cache is
\* what it was when the call was entered and every client the call opened
\* is closed.
C16_ValidatedCaching ==
    /\ [](/\ \A h \in DOMAIN CLIENT_CACHE :
                /\ clients[CLIENT_CACHE[h]].canary = "passed"
                /\ clients[CLIENT_CACHE[h]].host = h
          /\ \A c \in 1..Len(clients) :
                clients[c].canary = "failed" =>
                    ~ clients[c].open /\ c \notin CachedClients
          /\ \A t \in DOMAIN thread :
                Exhausted(t) =>
                    /\ CLIENT_CACHE = thread[t].cache0
                    /\ \A c \in thread[t].opened : ~ clients[c].open)
    /\ [][\A h \in DOMAIN CLIENT_CACHE' :
             (h \notin DOMAIN CLIENT_CACHE \/ CLIENT_CACHE'[h] # CLIENT_CACHE[h])
                => \E t \in DOMAIN thread :
                      /\ thread[t].pc = "gsc_canary"
                      /\ thread[t].ip = h
                      /\ thread[t].client = CLIENT_CACHE'[h]
                      /\ CLIENT_CACHE'[h] \in thread[t].opened
                      /\ thread'[t].nCanary = thread[t].nCanary + 1
                      /\ ~ thread'[t].resp.raises
                      /\ thread'[t].resp.err = <<>>
                      /\ thread'[t].pc = "idle"
                      /\ thread'[t].ret = [kind |-> "client",
                                           val |-> CLIENT_CACHE'[h]]]_vars

\* C16 witness: get_ssh_client has raised after a connect that succeeded
\* and a canary that failed, while another host's client is cached.
C16_Witness ==
    \E t \in DOMAIN thread :
        /\ Exhausted(t)
        /\ thread[t].opened # {}
        /\ thread[t].nCanary > 0
        /\ CLIENT_CACHE # EmptyDict

RECURSIVE Pow2(_)
Pow2(k) == IF k <= 0 THEN 1 ELSE 2 * Pow2(k - 1)

\* C17 (timeout backoff): in a get_ssh_client call with timeout T, the k-th
\* establish_ssh_connection call is made with timeout T * 2^(k-1); the
\* timeout of the call is T doubled once for every outer attempt that
\* failed (in establish_ssh_connection or in the canary) and for nothing
\* else; and every failed client.connect is followed by a sleep of 10,
\* whatever the timeout is.
C17_TimeoutBackoff ==
    \A t \in DOMAIN thread :
        LET f == thread[t]
            failedOuter == f.argAttempts - f.attempts
        IN  (f.op = "get_ssh_client" /\ ~ f.hit) =>
               /\ f.timeout = f.argTimeout * Pow2(failedOuter)
               /\ f.pc \in {"esc_loop", "gsc_canary"} =>
                      /\ f.nEstablish = failedOuter + 1
                      /\ f.est_timeout = f.argTimeout * Pow2(f.nEstablish - 1)
               /\ f.pc = "gsc_loop" => f.nEstablish = failedOuter
               /\ f.slept = RETRY_DELAY * (f.nConnect - f.nConnected)

\* C17 witness: the third establish_ssh_connection call of a
\* get_ssh_client with the default timeout 10 runs with timeout 40, after
\* a first attempt that failed in the canary.
C17_Witness ==
    \E t \in DOMAIN thread :
        /\ thread[t].op = "get_ssh_client"
        /\ thread[t].pc = "esc_loop"
        /\ thread[t].argTimeout = CLIENT_TIMEOUT
        /\ thread[t].nEstablish = 3
        /\ thread[t].est_timeout = 4 * CLIENT_TIMEOUT
        /\ thread[t].nCanary > 0

\* What the documents say the expansion of `name` is, given the
\* descriptions already visited: the description's own tests, then the
\* expansions of its include entries in order, each with what the earlier
\* ones visited; nothing for a visited description; and the first name
\* without a file, should there be one.
RECURSIVE Expand(_, _), ExpandList(_, _)
Expand(name, visited) ==
    IF name \notin DOMAIN descriptions
    THEN [tests |-> <<>>, visited |-> visited, missing |-> Some(name)]
    ELSE IF name \in visited
    THEN [tests |-> <<>>, visited |-> visited, missing |-> None]
    ELSE ExpandList(Doc(name).include,
                    [tests |-> Doc(name).tests,
                     visited |-> visited \cup {name},
                     missing |-> None])

ExpandList(list, acc) ==
    IF list = <<>> \/ ~ acc.missing.none THEN acc
    ELSE LET e == Expand(Head(list), acc.visited)
         IN  ExpandList(Tail(list),
                        [tests |-> acc.tests \o e.tests,
                         visited |-> e.visited,
                         missing |-> e.missing])

NotLocated ==
    /\ fpc = "done"
    /\ outcome.kind = "exc"
    /\ outcome.val[2] = "Test description file cannot be located"

\* C18 (expansion order): a top-level get_tests_from_description call that
\* has returned gave the description's own tests in document order followed
\* by the expansions of its include entries in document order, depth-first,
\* a description visited before giving nothing; the call raises 'cannot be
\* located' only for a name, at whatever depth, that has no description
\* file; and once the expansions are over, a requested description from
\* which an include without a file is reached has made the search raise it.
C18_ExpansionOrder ==
    /\ Returned =>
          LET e == Expand(expansion.name, {})
          IN  e.missing.none /\ expansion.tests = e.tests
    /\ NotLocated =>
          \E n \in RequestedDescriptions :
              LET e == Expand(n, {})
              IN  ~ e.missing.none /\ outcome.val[3] = e.missing.val
    /\ (fpc = "done" /\ ~ Falsy(names_arg) /\ ~ WalkRaised) =>
          ((\E n \in RequestedDescriptions : ~ Expand(n, {}).missing.none)
              => NotLocated)

\* C18 witness: a includes b and d, b includes c; the expansion of a is
\* a's test, b's tests, c's test (below b) and then d's test.
C18_Witness ==
    /\ Returned
    /\ expansion.name = TestName("a")
    /\ Doc(TestName("a")).include = <<TestName("b"), TestName("d")>>
    /\ Doc(TestName("b")).include = <<TestName("c")>>
    /\ expansion.tests =
          <<TestName("x"), SubCase(TestName("x"), <<"k">>), TestName("y"),
            TestName("y"), SubCase(TestName("y"), <<"k", "::", "m">>)>>

-----------------------------------------------------------------------------
(* Two callers of get_ssh_client on the one CLIENT_CACHE *)

Callers == {1, 2}
\* The attempts the two callers ask for.
CallerAttempts == {1}
\* The host both callers ask for.
CallerHosts == {"10.0.0.1"}

InitCallers ==
    /\ CLIENT_CACHE = EmptyDict
    /\ clients = <<>>
    /\ thread = [t \in Callers |-> IdleFrame]
    /\ evicted = [h \in Hosts |-> {}]
    /\ TestsIdle
    /\ Ec2Idle

\* A step of one of the callers; the steps of the two interleave in any
\* order, the dict operations themselves being atomic.
NextCallers ==
    \/ \E t \in Callers, ip \in CallerHosts, a \in CallerAttempts :
          GetSshClient(t, ip, a, CLIENT_TIMEOUT)
    \/ \E t \in Callers : GetSshClientLoop(t)
    \/ \E t \in Callers : ConnectFails(t)
    \/ \E t \in Callers : ConnectSucceeds(t)
    \/ \E t \in Callers : EstablishRaises(t)
    \/ \E t \in Callers, resp \in Responses : Canary(t, resp)

SpecCallers == InitCallers /\ [][NextCallers]_vars

\* The open clients of a host.
OpenClients(h) ==
    {c \in 1..Len(clients) : clients[c].host = h /\ clients[c].open}

\* C19 as claimed (one live client per host under interleaving): when two
\* callers that both found the host uncached have both returned from
\* get_ssh_client with a client, the host has at most one open client, it
\* is the one in the cache, and both callers hold it.
C19_AsClaimed ==
    \A h \in Hosts :
        (\A t \in Callers :
            /\ Finished(t, "get_ssh_client")
            /\ thread[t].ip = h
            /\ ~ thread[t].hit
            /\ thread[t].ret.kind = "client")
        => /\ Cardinality(OpenClients(h)) <= 1
           /\ Cached(h)
           /\ OpenClients(h) \subseteq {CLIENT_CACHE[h]}
           /\ \A t \in Callers : thread[t].ret.val = CLIENT_CACHE[h]

-----------------------------------------------------------------------------
(* ipa_ec2.py: EC2Provider and the instance it names *)

\* Polls of one call that the history counts and records.
MaxPolls == 3

\* The states of the instance that running_instance_id names; "gone" is an
\* instance that list_nodes does not return.
InstanceStates ==
    {"pending", "running", "stopping", "stopped", "terminated", "gone"}
\* Its field `request` is what the provider was last asked to do with it
\* ("none", "stop", "start", "destroy"); `created` is the node create_node
\* made and whose id _launch_instance has not stored yet ("none",
\* "pending", "running").
\* The states a caller waits for.
WaitStates == {"running", "stopped"}

\* The history of the calls made to the provider and to time.sleep, kept
\* up to MaxPolls rounds.
Called(f, call) ==
    IF Len(f.calls) < 2 * MaxPolls + 2 THEN Append(f.calls, call) ELSE f.calls

Counted(n) == IF n < MaxPolls THEN n + 1 ELSE n

\* The frame of a method that starts at position pc.
Frame(op, pc) ==
    [pc |-> pc, op |-> op, state |-> "", current_state |-> "",
     ret |-> "none", msg |-> "", polls |-> 0, polled |-> {}, calls |-> <<>>]

\* The frame of _wait_on_instance(state): current_state = 'Undefined'.
WaitFrame(op, state, calls) ==
    [Frame(op, "wait") EXCEPT !.state = state,
                              !.current_state = "Undefined",
                              !.calls = calls]

\* The method ends with exception exc raised at the call named.
Raise(f, exc, msg, call) ==
    [f EXCEPT !.pc = "idle", !.ret = exc, !.msg = msg,
              !.calls = Called(f, call)]

\* _get_instance raises: list_nodes raised BaseHTTPError (http) or
\* returned no instance (IndexError).
get_instance_raises(http) == http \/ instance.state = "gone"

\* _stop_instance, _start_instance and _terminate_instance are called:
\* each starts with _get_instance.
StopInstance ==
    /\ ec2.pc = "idle"
    /\ ec2' = Frame("_stop_instance", "get")
    /\ UNCHANGED <<connVars, testVars, instance>>

StartInstance ==
    /\ ec2.pc = "idle"
    /\ ec2' = Frame("_start_instance", "get")
    /\ UNCHANGED <<connVars, testVars, instance>>

TerminateInstance ==
    /\ ec2.pc = "idle"
    /\ ec2' = Frame("_terminate_instance", "get")
    /\ UNCHANGED <<connVars, testVars, instance>>

\* `instance = self._get_instance()` of the three methods.
GetInstance ==
    /\ ec2.pc = "get"
    /\ \E http \in BOOLEAN :
          IF get_instance_raises(http)
          THEN ec2' = Raise(ec2, "EC2ProviderException",
                            "Instance not found", "list_nodes")
          ELSE ec2' = [ec2 EXCEPT !.pc = "act",
                                  !.calls = Called(ec2, "list_nodes")]
    /\ UNCHANGED <<connVars, testVars, instance>>

\* self.ec2_driver.ex_stop_node(instance), then _wait_on_instance starts;
\* the provider may refuse, and refuses an instance that is gone since
\* _get_instance.
ExStopNode ==
    /\ ec2.pc = "act"
    /\ ec2.op = "_stop_instance"
    /\ \E ok \in BOOLEAN :
          IF ok /\ instance.state # "gone"
          THEN /\ instance' = [instance EXCEPT !.request = "stop"]
               /\ ec2' = WaitFrame("_stop_instance", "stopped",
                                   Called(ec2, "ex_stop_node"))
          ELSE /\ ec2' = Raise(ec2, "BaseHTTPError", "", "ex_stop_node")
               /\ instance' = instance
    /\ UNCHANGED <<connVars, testVars>>

\* self.ec2_driver.ex_start_node(instance)
ExStartNode ==
    /\ ec2.pc = "act"
    /\ ec2.op = "_start_instance"
    /\ \E ok \in BOOLEAN :
          IF ok /\ instance.state # "gone"
          THEN /\ instance' = [instance EXCEPT !.request = "start"]
               /\ ec2' = [ec2 EXCEPT !.pc = "until",
                                     !.calls = Called(ec2, "ex_start_node")]
          ELSE /\ ec2' = Raise(ec2, "BaseHTTPError", "", "ex_start_node")
               /\ instance' = instance
    /\ UNCHANGED <<connVars, testVars>>

\* instance.destroy(), after which _terminate_instance returns.
Destroy ==
    /\ ec2.pc = "act"
    /\ ec2.op = "_terminate_instance"
    /\ \E ok \in BOOLEAN :
          IF ok /\ instance.state # "gone"
          THEN /\ instance' = [instance EXCEPT !.request = "destroy"]
               /\ ec2' = [ec2 EXCEPT !.pc = "idle", !.ret = "returned",
                                     !.calls = Called(ec2, "destroy")]
          ELSE /\ ec2' = Raise(ec2, "BaseHTTPError", "", "destroy")
               /\ instance' = instance
    /\ UNCHANGED <<connVars, testVars>>

\* _launch_instance is called.
LaunchInstance ==
    /\ ec2.pc = "idle"
    /\ ec2' = Frame("_launch_instance", "sizes")
    /\ UNCHANGED <<connVars, testVars, instance>>

\* Lines 176-182: the size is found, or IndexError becomes
\* EC2ProviderException; a BaseHTTPError of list_sizes is not caught.
ListSizes ==
    /\ ec2.pc = "sizes"
    /\ \E r \in {"found", "missing", "http"} :
          ec2' = IF r = "found"
                 THEN [ec2 EXCEPT !.pc = "images",
                                  !.calls = Called(ec2, "list_sizes")]
                 ELSE IF r = "missing"
                 THEN Raise(ec2, "EC2ProviderException",
                            "Instance type not found", "list_sizes")
                 ELSE Raise(ec2, "BaseHTTPError", "", "list_sizes")
    /\ UNCHANGED <<connVars, testVars, instance>>

\* Lines 184-191: the image is found, or IndexError or BaseHTTPError
\* becomes EC2ProviderException.
ListImages ==
    /\ ec2.pc = "images"
    /\ \E r \in {"found", "missing", "http"} :
          ec2' = IF r = "found"
                 THEN [ec2 EXCEPT !.pc = "create",
                                  !.calls = Called(ec2, "list_images")]
                 ELSE Raise(ec2, "EC2ProviderException",
                            "Image not found", "list_images")
    /\ UNCHANGED <<connVars, testVars, instance>>

\* Lines 193-198: the arguments of create_node are evaluated first, and
\* line 194 looks generate_instance_name up in ipa_utils when it runs.
\* ipa_utils.py defines no such function, so with the module as it is the
\* lookup raises AttributeError, create_node is not called and no node is
\* made; where the module is given the function, create_node makes a
\* pending node or raises.
CreateNode ==
    /\ ec2.pc = "create"
    /\ \E r \in {"undefined", "created", "refused"} :
          IF r = "undefined"
          THEN /\ ec2' = [ec2 EXCEPT !.pc = "idle", !.ret = "AttributeError"]
               /\ instance' = instance
          ELSE IF r = "created"
          THEN /\ instance' = [instance EXCEPT !.created = "pending"]
               /\ ec2' = [ec2 EXCEPT !.pc = "until",
                                     !.calls = Called(ec2, "create_node")]
          ELSE /\ ec2' = Raise(ec2, "BaseHTTPError", "", "create_node")
               /\ instance' = instance
    /\ UNCHANGED <<connVars, testVars>>

\* self.ec2_driver.wait_until_running([instance]) of _start_instance and
\* _launch_instance: the library call returns when the node runs and
\* raises when it gives up or fails; _launch_instance then stores the id
\* of the node (line 200), which so becomes the instance, while on a raise
\* running_instance_id is left as it was and the node made is of no
\* further account.
WaitUntilRunning ==
    /\ ec2.pc = "until"
    /\ \E err \in BOOLEAN :
          LET launch == ec2.op = "_launch_instance"
              node == IF launch THEN instance.created ELSE instance.state
          IN  IF ~ err /\ node = "running"
              THEN /\ ec2' = [ec2 EXCEPT
                                !.pc = "idle", !.ret = "returned",
                                !.calls = Called(ec2, "wait_until_running")]
                   /\ instance' =
                         IF launch
                         THEN [state |-> "running", request |-> "none",
                               created |-> "none"]
                         ELSE instance
              ELSE /\ ec2' = Raise(ec2, "LibcloudError", "",
                                   "wait_until_running")
                   /\ instance' = [instance EXCEPT !.created = "none"]
    /\ UNCHANGED <<connVars, testVars>>

\* _wait_on_instance(state) called on its own.
WaitOnInstance(state) ==
    /\ ec2.pc = "idle"
    /\ ec2' = WaitFrame("_wait_on_instance", state, <<>>)
    /\ UNCHANGED <<connVars, testVars, instance>>

wait_condition_never(state, current_state) == FALSE

\* `while state != current_state:`
wait_condition(state, current_state) == state # current_state

\* The loop goes round: time.sleep(10).
WaitSleep ==
    /\ ec2.pc = "wait"
    /\ wait_condition(ec2.state, ec2.current_state)
    /\ ec2' = [ec2 EXCEPT !.pc = "poll", !.calls = Called(ec2, "sleep")]
    /\ UNCHANGED <<connVars, testVars, instance>>

\* current_state = self._get_instance_state()
WaitPoll ==
    /\ ec2.pc = "poll"
    /\ \E http \in BOOLEAN :
          IF get_instance_raises(http)
          THEN ec2' = Raise(ec2, "EC2ProviderException",
                            "Instance not found", "get_state")
          ELSE ec2' = [ec2 EXCEPT !.pc = "wait",
                                  !.current_state = instance.state,
                                  !.polls = Counted(ec2.polls),
                                  !.polled = IF ec2.polls = 0 THEN {}
                                             ELSE @ \cup {ec2.current_state},
                                  !.calls = Called(ec2, "get_state")]
    /\ UNCHANGED <<connVars, testVars, instance>>

\* The loop ends and the method returns.
WaitReturn ==
    /\ ec2.pc = "wait"
    /\ ~ wait_condition(ec2.state, ec2.current_state)
    /\ ec2' = [ec2 EXCEPT !.pc = "idle", !.ret = "returned"]
    /\ UNCHANGED <<connVars, testVars, instance>>

\* The provider moves the instance on, at any time: a pending instance
\* runs, a running instance asked to stop stops, a stopped instance asked
\* to start is pending again, an instance is terminated (on request or by
\* someone else) and a terminated instance is listed no longer; the node
\* create_node made runs.
ProviderStep ==
    /\ \/ /\ instance.state = "pending"
          /\ instance' = [instance EXCEPT !.state = "running"]
       \/ /\ instance.state = "running"
          /\ instance.request = "stop"
          /\ instance' = [instance EXCEPT !.state = "stopping"]
       \/ /\ instance.state = "stopping"
          /\ instance' = [instance EXCEPT !.state = "stopped"]
       \/ /\ instance.state = "stopped"
          /\ instance.request = "start"
          /\ instance' = [instance EXCEPT !.state = "pending"]
       \/ /\ instance.state \notin {"terminated", "gone"}
          /\ instance' = [instance EXCEPT !.state = "terminated"]
       \/ /\ instance.state = "terminated"
          /\ instance' = [instance EXCEPT !.state = "gone"]
       \/ /\ instance.created = "pending"
          /\ instance' = [instance EXCEPT !.created = "running"]
    /\ UNCHANGED <<connVars, testVars, ec2>>

InitEc2 ==
    /\ ConnInit
    /\ TestsIdle
    /\ instance \in [state : InstanceStates, request : {"none"},
                     created : {"none"}]
    /\ ec2 = Frame("none", "idle")

\* A step of the wait loop that runs.
WaitStep == WaitSleep \/ WaitPoll \/ WaitReturn

NextEc2 ==
    \/ StopInstance
    \/ StartInstance
    \/ TerminateInstance
    \/ LaunchInstance
    \/ GetInstance
    \/ ExStopNode
    \/ ExStartNode
    \/ Destroy
    \/ ListSizes
    \/ ListImages
    \/ CreateNode
    \/ WaitUntilRunning
    \/ \E state \in WaitStates : WaitOnInstance(state)
    \/ WaitSleep
    \/ WaitPoll
    \/ WaitReturn
    \/ ProviderStep

\* The caller is never suspended for ever; the provider owes nothing.
SpecEc2 == InitEc2 /\ [][NextEc2]_vars /\ WF_vars(WaitStep)

\* The wait loop is running.
Waiting == ec2.pc \in {"wait", "poll"}

\* C20 (stop-and-wait): _stop_instance gets the instance, then asks the
\* provider to stop it, before any poll, and asks once; when getting the
\* instance fails no stop is asked for; a wait loop that has returned
\* polled at least once, its last poll gave the state waited for
\* ('stopped' for _stop_instance) and no earlier poll did; every poll comes
\* straight after a sleep of its own; as long as the state polled is not
\* the one waited for the loop goes round again, however many polls were
\* made, and as soon as it is, the loop cannot go round; and a loop that
\* is running ends (returns or raises) unless the instance is, again and
\* again, not in the state waited for.
C20_StopAndWait ==
    /\ [](/\ (ec2.op = "_stop_instance"
                 /\ (Waiting \/ ec2.ret = "returned")) =>
                /\ Len(ec2.calls) >= 2
                /\ ec2.calls[1] = "list_nodes"
                /\ ec2.calls[2] = "ex_stop_node"
                /\ ec2.state = "stopped"
                /\ instance.request = "stop"
          /\ (ec2.op = "_stop_instance" /\ "ex_stop_node" \notin Range(ec2.calls))
                => ec2.polls = 0 /\ ~ Waiting /\ ec2.ret # "returned"
          /\ \A i \in 1..Len(ec2.calls) :
                /\ ec2.calls[i] = "ex_stop_node" =>
                      i = 2 /\ ec2.op = "_stop_instance"
                /\ ec2.calls[i] = "get_state" =>
                      i > 1 /\ ec2.calls[i - 1] = "sleep"
                /\ (ec2.calls[i] = "sleep" /\ i < Len(ec2.calls)) =>
                      ec2.calls[i + 1] = "get_state"
          /\ (ec2.ret = "returned"
                 /\ ec2.op \in {"_stop_instance", "_wait_on_instance"}) =>
                /\ ec2.pc = "idle"
                /\ ec2.polls >= 1
                /\ ec2.current_state = ec2.state
                /\ ec2.state \notin ec2.polled
          /\ ec2.pc = "wait" =>
                (ENABLED WaitSleep <=> ec2.current_state # ec2.state)
          /\ (ec2.pc = "wait" /\ ec2.current_state = ec2.state) =>
                ec2.polls >= 1 /\ ENABLED WaitReturn)
    /\ Waiting ~> (~ Waiting \/ instance.state # ec2.state)

\* C20 witness: _stop_instance has returned after a poll that gave
\* 'stopping' and a later poll that gave 'stopped'.
C20_Witness ==
    /\ ec2.op = "_stop_instance"
    /\ ec2.ret = "returned"
    /\ ec2.polls >= 2
    /\ "stopping" \in ec2.polled
    /\ ec2.calls[2] = "ex_stop_node"

====
